---- MODULE Spec2Model ----
(***************************************************************************)
(* Model of the Yolt backend: the FastAPI handlers of backend.py, the      *)
(* Whisper adapter of services/transcription_service.py and the Gemini     *)
(* adapter of services/task_service.py.                                    *)
(*                                                                         *)
(* Python strings are sequences of tokens (characters for user text and    *)
(* transcriptions, lexical tokens for JSON text and for timestamps).       *)
(* Exceptions are records; a handler's response is a record with the HTTP  *)
(* status, the error detail and the JSON body.                             *)
(***************************************************************************)
EXTENDS Integers, Sequences, FiniteSets, TLC

\* ------------------------------------------------------------------------
\* Bounds of the model
\* ------------------------------------------------------------------------
\* Number of names tempfile can hand out for scratch files.
MaxTemp == 2
\* Longest user text / transcription, in characters.
MaxTextLen == 2
\* Cap on executions of whisper.load_model (reached only by a faulty loader).
MaxLoads == 3
\* Largest second the server clock shows.
MaxClock == 0

\* config/settings.py: MAX_AUDIO_FILE_SIZE = 25 * 1024 * 1024
MAX_AUDIO_FILE_SIZE == 25 * 1024 * 1024

\* The lifespan context manager and the concurrently served requests.
Lifespan == "lifespan"
Workers == {"w1", "w2"}
Procs == {Lifespan} \cup Workers

\* Python's None for the module global whisper_model; the handle returned by
\* the n-th execution of whisper.load_model is n.
None == 0
\* Python's None for UploadFile.size.
SizeNone == 0 - 1

\* ------------------------------------------------------------------------
\* Strings
\* ------------------------------------------------------------------------
Chars == {" ", "a"}
Whitespace == {" "}

SeqsUpTo(S, n) == UNION {[1..k -> S] : k \in 0..n}

\* Texts a client can post and texts Whisper can return.
Texts == SeqsUpTo(Chars, MaxTextLen)

RECURSIVE lstrip(_)
lstrip(s) == IF s # <<>> /\ Head(s) \in Whitespace THEN lstrip(Tail(s)) ELSE s

RECURSIVE rstrip(_)
rstrip(s) ==
    IF s # <<>> /\ s[Len(s)] \in Whitespace
    THEN rstrip(SubSeq(s, 1, Len(s) - 1))
    ELSE s

\* str.strip()
strip(s) == rstrip(lstrip(s))

\* Python truthiness of a str
Truthy(s) == s # <<>>

IsSuffix(suf, s) ==
    /\ Len(suf) <= Len(s)
    /\ SubSeq(s, Len(s) - Len(suf) + 1, Len(s)) = suf

\* ------------------------------------------------------------------------
\* JSON text (json.loads), over the tokens of a small JSON subset:
\*   value  ::= "[" "]"  |  "{" "}"  |  "{" member ("," member)* "}"
\* A member token is one  "key": value  pair.
\* ------------------------------------------------------------------------
TasksMember == "\"tasks\":[]"
AffirmationMember == "\"affirmationText\":\"s\""
TimestampMember == "\"timestamp\":\"t\""
MemberTokens == {TasksMember, AffirmationMember, TimestampMember}

MemberKey(tok) ==
    CASE tok = TasksMember -> "tasks"
      [] tok = AffirmationMember -> "affirmationText"
      [] tok = TimestampMember -> "timestamp"

MemberVal(tok) ==
    CASE tok = TasksMember -> <<"[", "]">>
      [] tok = AffirmationMember -> <<"s">>
      [] tok = TimestampMember -> <<"t">>

\* m is  member ("," member)*
IsMemberList(m) ==
    /\ Len(m) % 2 = 1
    /\ \A i \in 1..Len(m) :
          IF i % 2 = 1 THEN m[i] \in MemberTokens ELSE m[i] = ","

\* The dict of a member list; a repeated key keeps its last value.
MembersDict(m) ==
    LET idx == {i \in 1..Len(m) : i % 2 = 1}
        keys == {MemberKey(m[i]) : i \in idx}
        last(k) == CHOOSE i \in idx :
                      /\ MemberKey(m[i]) = k
                      /\ \A j \in idx : MemberKey(m[j]) = k => j <= i
    IN [k \in keys |-> MemberVal(m[last(k)])]

EmptyDict == [k \in {} |-> <<>>]

JSONObject(d) == [type |-> "object", members |-> d]
JSONArray == [type |-> "array", members |-> EmptyDict]
NoValue == [type |-> "none", members |-> EmptyDict]

\* json.loads(t): ok with the parsed value, or not ok (JSONDecodeError).
json_loads(t) ==
    IF t = <<"[", "]">> THEN [ok |-> TRUE, val |-> JSONArray]
    ELSE IF Len(t) >= 2 /\ t[1] = "{" /\ t[Len(t)] = "}"
    THEN LET m == SubSeq(t, 2, Len(t) - 1)
         IN IF m = <<>> THEN [ok |-> TRUE, val |-> JSONObject(EmptyDict)]
            ELSE IF IsMemberList(m)
            THEN [ok |-> TRUE, val |-> JSONObject(MembersDict(m))]
            ELSE [ok |-> FALSE, val |-> NoValue]
    ELSE [ok |-> FALSE, val |-> NoValue]

\* d[k] = v on a dict
DictSet(d, k, v) ==
    [x \in (DOMAIN d) \cup {k} |-> IF x = k THEN v ELSE d[x]]

\* The literal {"tasks": []} of extract_tasks_from_text
EmptyTaskList == JSONObject([k \in {"tasks"} |-> <<"[", "]">>])

\* Texts the generative-AI service can answer with (response.text), besides
\* None: empty, truncated, an array, objects with and without the keys the
\* handlers look at, a repeated key, a trailing comma.
GeminiTexts ==
    { <<>>,
      <<"{">>,
      <<"[", "]">>,
      <<"{", "}">>,
      <<"{", TasksMember, "}">>,
      <<"{", TasksMember, ",", "}">>,
      <<"{", AffirmationMember, "}">>,
      <<"{", AffirmationMember, ",", TimestampMember, "}">> }

\* A Gemini response object: its .text is None or a string.
GeminiResponses ==
    {[text_is_none |-> TRUE, text |-> <<>>]} \cup
    {[text_is_none |-> FALSE, text |-> t] : t \in GeminiTexts}

NoResponse == [text_is_none |-> TRUE, text |-> <<"no response">>]

\* str(response.text)
StrOfText(r) == IF r.text_is_none THEN <<"None">> ELSE r.text

\* ------------------------------------------------------------------------
\* Timestamps: datetime.isoformat()
\* ------------------------------------------------------------------------
\* What datetime.datetime.now(datetime.UTC) can return: an aware datetime.
Clock == [sec : 0..MaxClock, usec : {0, 1}, tz : {"UTC"}]

SecTok(s) ==
    CASE s = 0 -> "00:00:00"
      [] s = 1 -> "00:00:01"
      [] s = 2 -> "00:00:02"
      [] OTHER -> "00:00:59"

\* datetime.isoformat(): the fraction is omitted when microsecond is 0, the
\* UTC offset is appended when the datetime is aware.
isoformat(dt) ==
    <<"1970-01-01", "T", SecTok(dt.sec)>>
      \o (IF dt.usec # 0 THEN <<".000001">> ELSE <<>>)
      \o (IF dt.tz = "UTC" THEN <<"+00:00">> ELSE <<>>)

\* backend.py line 160
current_timestamp(dt) == isoformat(dt) \o <<"Z">>

Designators == {"Z", "+00:00"}

\* date "T" time [fraction] "Z": exactly one zone designator, the final Z.
WellFormedUTC(ts) ==
    /\ Len(ts) \in {4, 5}
    /\ ts[1] = "1970-01-01"
    /\ ts[2] = "T"
    /\ \E s \in 0..(MaxClock + 1) : ts[3] = SecTok(s)
    /\ Len(ts) = 5 => ts[4] = ".000001"
    /\ ts[Len(ts)] = "Z"
    /\ Cardinality({i \in 1..Len(ts) : ts[i] \in Designators}) = 1

\* ------------------------------------------------------------------------
\* Exceptions and responses
\* ------------------------------------------------------------------------
NoErr == [type |-> "none", status |-> 0, msg |-> <<>>]

\* fastapi.HTTPException(status_code, detail)
HTTPException(code, detail) ==
    [type |-> "HTTPException", status |-> code, msg |-> detail]

\* Any other exception, with its message
Raised(type, msg) == [type |-> type, status |-> 0, msg |-> <<msg>>]

StatusTok(code) ==
    CASE code = 400 -> "400"
      [] code = 413 -> "413"
      [] code = 500 -> "500"
      [] OTHER -> "?"

\* str(e): starlette's HTTPException prints "<status_code>: <detail>".
Str(e) ==
    IF e.type = "HTTPException"
    THEN <<StatusTok(e.status), ": ">> \o e.msg
    ELSE e.msg

NoBody == [status |-> "none"]
NoResp == [status |-> 0, detail |-> <<>>, body |-> NoBody]

\* JSONResponse(status_code=200, content=body) or a returned dict
Ok(body) == [status |-> 200, detail |-> <<>>, body |-> body]

\* What the client receives for an HTTPException leaving the handler.
ErrorResponse(e) == [status |-> e.status, detail |-> e.msg, body |-> NoBody]

\* What the client receives for any other exception leaving the handler:
\* the framework's plain 500.
Unhandled(e) ==
    [status |-> 500, detail |-> <<"Internal Server Error">>, body |-> NoBody]

\* The catch-all of a handler: except Exception as e: raise
\* HTTPException(status_code=500, detail=prefix + str(e)).  HTTPException is
\* itself an Exception, so the handler's own 400 and 413 are caught too.
CatchAll(prefix, e) == HTTPException(500, <<prefix>> \o Str(e))

Prefix(ep) ==
    CASE ep = "transcribe" -> "Error processing audio file: "
      [] ep = "extract_audio" ->
             "Error processing audio file for task extraction: "
      [] ep = "extract_text" -> "Error processing text for task extraction: "
      [] OTHER -> ""

\* Handlers whose body is inside try/except Exception.
CatchAllEndpoints == {"transcribe", "extract_audio", "extract_text"}
AudioEndpoints == {"transcribe", "extract_audio"}

\* ------------------------------------------------------------------------
\* Requests
\* ------------------------------------------------------------------------
AudioLens == {0, 1, MAX_AUDIO_FILE_SIZE, MAX_AUDIO_FILE_SIZE + 1}

NoReq == [ep |-> "none", size |-> SizeNone, len |-> 0, text |-> <<>>,
          keys |-> {}]

\* An upload: len bytes of content; UploadFile.size is the length or None.
AudioRequests ==
    UNION {{[ep |-> e, size |-> sz, len |-> n, text |-> <<>>, keys |-> {}] :
               e \in AudioEndpoints, sz \in {SizeNone, n}} : n \in AudioLens}

\* TextInput(text: str)
TextRequests ==
    {[ep |-> "extract_text", size |-> SizeNone, len |-> 0, text |-> t,
      keys |-> {}] : t \in Texts}

\* user_tasks: dict, by the keys the caller put in it
AffirmationRequests ==
    {[ep |-> "affirmation", size |-> SizeNone, len |-> 0, text |-> <<>>,
      keys |-> k] : k \in {{}, {"tasks"}, {"tasks", "timestamp"}}}

PlainRequests ==
    {[ep |-> e, size |-> SizeNone, len |-> 0, text |-> <<>>, keys |-> {}] :
        e \in {"root", "health"}}

Requests ==
    AudioRequests \cup TextRequests \cup AffirmationRequests \cup PlainRequests

Entry(ep) ==
    CASE ep = "transcribe" -> "read"
      [] ep = "extract_audio" -> "size_check"
      [] ep = "extract_text" -> "text_check"
      [] ep = "affirmation" -> "stamp"
      [] ep = "health" -> "health"
      [] ep = "root" -> "root"

\* ------------------------------------------------------------------------
\* State
\* ------------------------------------------------------------------------
VARIABLES
    app,            \* "starting", "serving" or "failed" (lifespan outcome)
    whisper_model,  \* the module global of transcription_service.py
    loadStarted,    \* executions of whisper.load_model begun
    loadCompleted,  \* executions of whisper.load_model that returned
    files,          \* names of the scratch files that exist
    loop,           \* the coroutine the event loop is running, or "free"
    pc,             \* position of each process
    req,            \* the request a worker is handling
    model,          \* the handle load_whisper_model returned to the process
    tmp,            \* temp_filename of the worker's transcribe_audio_file call
    transcription,  \* what transcribe_audio_file returned
    gem,            \* the Gemini response the worker received
    stamp,          \* current_timestamp of generate_affirmation
    err,            \* the exception raised in the handler body, if any
    events,         \* adapter calls and returns of the request so far
    resp            \* the response delivered to the client

vars == <<app, whisper_model, loadStarted, loadCompleted, files, loop, pc, req,
          model, tmp, transcription, gem, stamp, err, events, resp>>

TempNames == 1..MaxTemp

Init ==
    /\ app = "starting"
    /\ whisper_model = None
    /\ loadStarted = 0
    /\ loadCompleted = 0
    /\ files = {}
    /\ loop = "free"
    /\ pc = [p \in Procs |-> IF p = Lifespan THEN "load_check" ELSE "idle"]
    /\ req = [p \in Workers |-> NoReq]
    /\ model = [p \in Procs |-> None]
    /\ tmp = [p \in Workers |-> 0]
    /\ transcription = [p \in Workers |-> <<>>]
    /\ gem = [p \in Workers |-> NoResponse]
    /\ stamp = [p \in Workers |-> <<>>]
    /\ err = [p \in Workers |-> NoErr]
    /\ events = [p \in Workers |-> {}]
    /\ resp = [p \in Workers |-> NoResp]

\* get_whisper_model_status()
get_whisper_model_status == whisper_model # None

\* ------------------------------------------------------------------------
\* How a handler ends
\* ------------------------------------------------------------------------
\* A catch-all preceded by "except HTTPException: raise"
DeliverPassingHTTP(ep, e) ==
    IF e.type = "HTTPException" THEN ErrorResponse(e)
    ELSE IF ep \in CatchAllEndpoints
    THEN ErrorResponse(CatchAll(Prefix(ep), e))
    ELSE Unhandled(e)

\* The response for an exception e raised in the body of handler ep: through
\* the handler's catch-all when it has one, else as the framework renders it.
Deliver(ep, e) ==
    IF ep \in CatchAllEndpoints
    THEN ErrorResponse(CatchAll(Prefix(ep), e))
    ELSE IF e.type = "HTTPException" THEN ErrorResponse(e) ELSE Unhandled(e)

Finish(p, r, e) ==
    /\ resp' = [resp EXCEPT ![p] = r]
    /\ err' = [err EXCEPT ![p] = e]
    /\ pc' = [pc EXCEPT ![p] = "done"]

\* The handler body raises e.
Raise(p, e) == Finish(p, Deliver(req[p].ep, e), e)

\* The handler returns a JSON body.
Return(p, body) == Finish(p, Ok(body), NoErr)

\* ------------------------------------------------------------------------
\* Scheduling.  The async handlers (all but generate_affirmation) run on the
\* one event loop: a coroutine runs alone from where it starts or resumes to
\* its next await or its end.  generate_affirmation is a plain def, which the
\* framework runs on a thread of its pool, concurrently with the loop.
\* ------------------------------------------------------------------------
\* p is running (the lifespan startup runs before any request is served)
OnLoop(p) == p = Lifespan \/ loop = p

\* A request of R arrives, only once the lifespan startup has completed.
ReceiveFrom(p, R) ==
    /\ app = "serving"
    /\ pc[p] = "idle"
    /\ \E r \in R :
          /\ req' = [req EXCEPT ![p] = r]
          /\ pc' = [pc EXCEPT ![p] = Entry(r.ep)]
    /\ UNCHANGED <<app, whisper_model, loadStarted, loadCompleted, files, loop,
                   model, tmp, transcription, gem, stamp, err, events, resp>>

Receive(p) == ReceiveFrom(p, Requests)

\* The response has been sent; the request's objects are gone, and the
\* coroutine (if the handler was one) has left the loop.
Close(p) ==
    /\ pc[p] = "done"
    /\ pc' = [pc EXCEPT ![p] = "idle"]
    /\ loop' = IF loop = p THEN "free" ELSE loop
    /\ req' = [req EXCEPT ![p] = NoReq]
    /\ model' = [model EXCEPT ![p] = None]
    /\ tmp' = [tmp EXCEPT ![p] = 0]
    /\ transcription' = [transcription EXCEPT ![p] = <<>>]
    /\ gem' = [gem EXCEPT ![p] = NoResponse]
    /\ stamp' = [stamp EXCEPT ![p] = <<>>]
    /\ err' = [err EXCEPT ![p] = NoErr]
    /\ events' = [events EXCEPT ![p] = {}]
    /\ resp' = [resp EXCEPT ![p] = NoResp]
    /\ UNCHANGED <<app, whisper_model, loadStarted, loadCompleted, files>>

\* ------------------------------------------------------------------------
\* load_whisper_model (transcription_service.py lines 8-15), events by the
\* lifespan and by transcribe_audio_file
\* ------------------------------------------------------------------------
\* A loader without the guard of line 10
LoadsAlways(h) == TRUE

\* line 10: if whisper_model is None
NeedsLoad(h) == h = None

\* A loader that publishes the handle whether or not the load returned
PublishedEarly(ok, old, new) == new

\* line 12: the assignment runs only when whisper.load_model returned
LoadedHandle(ok, old, new) == IF ok THEN new ELSE old

\* Where load_whisper_model returns to.
AfterLoad(p) == IF p = Lifespan THEN "yielded" ELSE "tmp_create"

LoadCheck(p) ==
    /\ pc[p] = "load_check"
    /\ OnLoop(p)
    /\ IF NeedsLoad(whisper_model)
       THEN /\ pc' = [pc EXCEPT ![p] = "load_model"]
            /\ UNCHANGED <<model, app>>
       ELSE /\ pc' = [pc EXCEPT ![p] = AfterLoad(p)]
            /\ model' = [model EXCEPT ![p] = whisper_model]
            /\ app' = IF p = Lifespan THEN "serving" ELSE app
    /\ UNCHANGED <<whisper_model, loadStarted, loadCompleted, files, loop, req, tmp,
                   transcription, gem, stamp, err, events, resp>>

\* whisper.load_model("base", download_root="whisper") starts
LoadBegin(p) ==
    /\ pc[p] = "load_model"
    /\ OnLoop(p)
    /\ loadStarted < MaxLoads
    /\ loadStarted' = loadStarted + 1
    /\ pc' = [pc EXCEPT ![p] = "loading"]
    /\ UNCHANGED <<app, whisper_model, loadCompleted, files, loop, req, model, tmp,
                   transcription, gem, stamp, err, events, resp>>

\* whisper.load_model returns a new handle
LoadEndOk(p) ==
    /\ pc[p] = "loading"
    /\ OnLoop(p)
    /\ whisper_model' = LoadedHandle(TRUE, whisper_model, loadCompleted + 1)
    /\ loadCompleted' = loadCompleted + 1
    /\ model' = [model EXCEPT ![p] = whisper_model']
    /\ pc' = [pc EXCEPT ![p] = AfterLoad(p)]
    /\ app' = IF p = Lifespan THEN "serving" ELSE app
    /\ UNCHANGED <<loadStarted, files, loop, req, tmp, transcription, gem, stamp,
                   err, events, resp>>

\* whisper.load_model raises: startup fails, or the request fails
LoadEndRaise(p) ==
    /\ pc[p] = "loading"
    /\ OnLoop(p)
    /\ whisper_model' = LoadedHandle(FALSE, whisper_model, loadCompleted + 1)
    /\ IF p = Lifespan
       THEN /\ app' = "failed"
            /\ pc' = [pc EXCEPT ![p] = "stopped"]
            /\ UNCHANGED <<resp, err>>
       ELSE /\ Raise(p, Raised("RuntimeError", "model load failed"))
            /\ UNCHANGED app
    /\ UNCHANGED <<loadStarted, loadCompleted, files, loop, req, model, tmp,
                   transcription, gem, stamp, events>>

\* ------------------------------------------------------------------------
\* The audio handlers (backend.py lines 37-66 and 68-111)
\* ------------------------------------------------------------------------
\* line 80: audio_file.size and audio_file.size > MAX_AUDIO_FILE_SIZE
TooLarge(size) == size # SizeNone /\ size # 0 /\ size > MAX_AUDIO_FILE_SIZE

\* extract_tasks_from_audio lines 78-83 (an UploadFile is always truthy): the
\* coroutine starts, checks the size and awaits audio_file.read()
SizeCheck(p) ==
    /\ pc[p] = "size_check"
    /\ loop = "free"
    /\ IF TooLarge(req[p].size)
       THEN /\ Raise(p, HTTPException(413,
                         <<"File too large. Maximum size is 25MB">>))
            /\ loop' = p
       ELSE /\ pc' = [pc EXCEPT ![p] = "read"]
            /\ loop' = "free"
            /\ UNCHANGED <<resp, err>>
    /\ UNCHANGED <<app, whisper_model, loadStarted, loadCompleted, files, req,
                   model, tmp, transcription, gem, stamp, events>>

\* lines 46-50 and 83-88: the coroutine resumes with the upload's bytes,
\* rejects an empty upload, else enters transcribe_audio_file(audio_content)
Read(p) ==
    /\ pc[p] = "read"
    /\ loop = "free"
    /\ loop' = p
    /\ IF req[p].len = 0
       THEN /\ Raise(p, HTTPException(400, <<"Empty audio file">>))
            /\ UNCHANGED events
       ELSE /\ pc' = [pc EXCEPT ![p] = "load_check"]
            /\ events' = [events EXCEPT
                            ![p] = @ \cup {"transcribe_audio_file"}]
            /\ UNCHANGED <<resp, err>>
    /\ UNCHANGED <<app, whisper_model, loadStarted, loadCompleted, files, req,
                   model, tmp, transcription, gem, stamp>>

\* ------------------------------------------------------------------------
\* transcribe_audio_file (transcription_service.py lines 17-38)
\* ------------------------------------------------------------------------
\* line 22: NamedTemporaryFile(suffix=".wav", delete=False) creates a file
\* under a name no existing file has, or raises when it finds none.
TmpCreate(p) ==
    /\ pc[p] = "tmp_create"
    /\ OnLoop(p)
    /\ IF TempNames \ files # {}
       THEN /\ \E n \in TempNames \ files :
                  /\ files' = files \cup {n}
                  /\ tmp' = [tmp EXCEPT ![p] = n]
            /\ pc' = [pc EXCEPT ![p] = "tmp_write"]
            /\ UNCHANGED <<resp, err>>
       ELSE /\ Raise(p, Raised("FileExistsError",
                               "No usable temporary file name found"))
            /\ UNCHANGED <<files, tmp>>
    /\ UNCHANGED <<app, whisper_model, loadStarted, loadCompleted, loop, req,
                   model,
                   transcription, gem, stamp, events>>

\* lines 23-24: temp_file.write(audio_data) succeeds and the with block ends
TmpWriteOk(p) ==
    /\ pc[p] = "tmp_write"
    /\ OnLoop(p)
    /\ pc' = [pc EXCEPT ![p] = "load_audio"]
    /\ UNCHANGED <<app, whisper_model, loadStarted, loadCompleted, files, loop,
                   req,
                   model, tmp, transcription, gem, stamp, err, events, resp>>

\* line 23: temp_file.write(audio_data) raises.  The with block closes the
\* file, delete=False keeps it, and the statement is outside try/finally.
TmpWriteRaise(p) ==
    /\ pc[p] = "tmp_write"
    /\ OnLoop(p)
    /\ Raise(p, Raised("OSError", "No space left on device"))
    /\ UNCHANGED <<app, whisper_model, loadStarted, loadCompleted, files, loop,
                   req,
                   model, tmp, transcription, gem, stamp, events>>

\* lines 28-29: whisper.load_audio, whisper.pad_or_trim
LoadAudioOk(p) ==
    /\ pc[p] = "load_audio"
    /\ OnLoop(p)
    /\ pc' = [pc EXCEPT ![p] = "model_transcribe"]
    /\ UNCHANGED <<app, whisper_model, loadStarted, loadCompleted, files, loop,
                   req,
                   model, tmp, transcription, gem, stamp, err, events, resp>>

LoadAudioRaise(p) ==
    /\ pc[p] = "load_audio"
    /\ OnLoop(p)
    /\ err' = [err EXCEPT ![p] = Raised("RuntimeError", "Failed to load audio")]
    /\ pc' = [pc EXCEPT ![p] = "finally"]
    /\ UNCHANGED <<app, whisper_model, loadStarted, loadCompleted, files, loop,
                   req,
                   model, tmp, transcription, gem, stamp, events, resp>>

\* What model.transcribe can return: a dict with or without a "text" entry.
WhisperResults == [has_text : BOOLEAN, text : Texts]

\* lines 33-34: result.get("text", "") and the str-or-empty conversion
TranscriptionOf(result) ==
    LET t == IF result.has_text THEN result.text ELSE <<>>
    IN IF Truthy(t) THEN t ELSE <<>>

\* lines 30-34: model.transcribe(audio) returns
ModelTranscribeOk(p) ==
    /\ pc[p] = "model_transcribe"
    /\ OnLoop(p)
    /\ \E result \in WhisperResults :
          transcription' = [transcription EXCEPT ![p] = TranscriptionOf(result)]
    /\ pc' = [pc EXCEPT ![p] = "finally"]
    /\ UNCHANGED <<app, whisper_model, loadStarted, loadCompleted, files, loop,
                   req,
                   model, tmp, gem, stamp, err, events, resp>>

\* line 30: model.transcribe(audio) raises
ModelTranscribeRaise(p) ==
    /\ pc[p] = "model_transcribe"
    /\ OnLoop(p)
    /\ err' = [err EXCEPT ![p] = Raised("RuntimeError", "transcribe failed")]
    /\ pc' = [pc EXCEPT ![p] = "finally"]
    /\ UNCHANGED <<app, whisper_model, loadStarted, loadCompleted, files, loop,
                   req,
                   model, tmp, transcription, gem, stamp, events, resp>>

\* lines 35-38: the finally block removes the scratch file, then the call
\* returns the transcription or re-raises the pending exception
Finally(p) ==
    /\ pc[p] = "finally"
    /\ OnLoop(p)
    /\ files' = IF tmp[p] \in files THEN files \ {tmp[p]} ELSE files
    /\ IF err[p] = NoErr
       THEN /\ pc' = [pc EXCEPT ![p] = "transcribed"]
            /\ events' = [events EXCEPT ![p] = @ \cup {"transcribed"}]
            /\ UNCHANGED <<resp, err>>
       ELSE /\ Raise(p, err[p])
            /\ UNCHANGED events
    /\ UNCHANGED <<app, whisper_model, loadStarted, loadCompleted, loop, req,
                   model,
                   tmp, transcription, gem, stamp>>

\* transcribe_audio lines 52-59
TranscribeReturn(p) ==
    /\ pc[p] = "transcribed"
    /\ OnLoop(p)
    /\ req[p].ep = "transcribe"
    /\ Return(p, [status |-> "success", transcription |-> transcription[p]])
    /\ UNCHANGED <<app, whisper_model, loadStarted, loadCompleted, files, loop,
                   req,
                   model, tmp, transcription, gem, stamp, events>>

\* extract_tasks_from_audio lines 90-94
SpeechCheck(p) ==
    /\ pc[p] = "transcribed"
    /\ OnLoop(p)
    /\ req[p].ep = "extract_audio"
    /\ IF ~Truthy(strip(transcription[p]))
       THEN Raise(p, HTTPException(400,
                       <<"No speech detected in audio file">>))
       ELSE /\ pc' = [pc EXCEPT ![p] = "extract"]
            /\ UNCHANGED <<resp, err>>
    /\ UNCHANGED <<app, whisper_model, loadStarted, loadCompleted, files, loop,
                   req,
                   model, tmp, transcription, gem, stamp, events>>

\* ------------------------------------------------------------------------
\* extract_tasks (task_service.py lines 18-35)
\* ------------------------------------------------------------------------
\* lines 21-31: the client call returns a response object
ExtractTasksOk(p) ==
    /\ pc[p] = "extract"
    /\ OnLoop(p)
    /\ events' = [events EXCEPT ![p] = @ \cup {"extract_tasks"}]
    /\ \E r \in GeminiResponses : gem' = [gem EXCEPT ![p] = r]
    /\ pc' = [pc EXCEPT ![p] = "extracted"]
    /\ UNCHANGED <<app, whisper_model, loadStarted, loadCompleted, files, loop,
                   req,
                   model, tmp, transcription, stamp, err, resp>>

\* lines 32-35: the client call raises; extract_tasks logs and re-raises
ExtractTasksRaise(p) ==
    /\ pc[p] = "extract"
    /\ OnLoop(p)
    /\ events' = [events EXCEPT ![p] = @ \cup {"extract_tasks"}]
    /\ Raise(p, Raised("ClientError", "generate_content failed"))
    /\ UNCHANGED <<app, whisper_model, loadStarted, loadCompleted, files, loop,
                   req,
                   model, tmp, transcription, gem, stamp>>

\* extract_tasks_from_audio lines 96-104: tasks is the raw response text
AudioReturn(p) ==
    /\ pc[p] = "extracted"
    /\ OnLoop(p)
    /\ req[p].ep = "extract_audio"
    /\ Return(p, [status |-> "success", transcription |-> transcription[p],
                  tasks |-> gem[p]])
    /\ UNCHANGED <<app, whisper_model, loadStarted, loadCompleted, files, loop,
                   req,
                   model, tmp, transcription, gem, stamp, events>>

\* ------------------------------------------------------------------------
\* extract_tasks_from_text (backend.py lines 113-156)
\* ------------------------------------------------------------------------
\* line 123: not text_input.text or not text_input.text.strip()
Blank(text) == ~Truthy(text) \/ ~Truthy(strip(text))

TextCheck(p) ==
    /\ pc[p] = "text_check"
    /\ loop = "free"
    /\ loop' = p
    /\ IF Blank(req[p].text)
       THEN Raise(p, HTTPException(400,
                       <<"No text provided or text is empty">>))
       ELSE /\ pc' = [pc EXCEPT ![p] = "extract"]
            /\ UNCHANGED <<resp, err>>
    /\ UNCHANGED <<app, whisper_model, loadStarted, loadCompleted, files, req,
                   model, tmp, transcription, gem, stamp, events>>

\* A parse without the except json.JSONDecodeError fallback
TasksNoFallback(r) ==
    IF ~r.text_is_none /\ Truthy(r.text)
    THEN json_loads(r.text).val
    ELSE EmptyTaskList

\* lines 130-140: parse the response text, falling back to {"tasks": []}
\* when it is empty, None or not JSON
TasksOf(r) ==
    IF ~r.text_is_none /\ Truthy(r.text)
    THEN IF json_loads(r.text).ok
         THEN json_loads(r.text).val
         ELSE EmptyTaskList
    ELSE EmptyTaskList

\* lines 130-149
ParseTasks(p) ==
    /\ pc[p] = "extracted"
    /\ OnLoop(p)
    /\ req[p].ep = "extract_text"
    /\ Return(p, [status |-> "success", input_text |-> req[p].text,
                  tasks |-> TasksOf(gem[p])])
    /\ UNCHANGED <<app, whisper_model, loadStarted, loadCompleted, files, loop,
                   req,
                   model, tmp, transcription, gem, stamp, events>>

\* ------------------------------------------------------------------------
\* generate_affirmation (backend.py lines 158-197); no try/except
\* ------------------------------------------------------------------------
\* line 160: the server clock is read before anything else
Stamp(p) ==
    /\ pc[p] = "stamp"
    /\ \E dt \in Clock : stamp' = [stamp EXCEPT ![p] = current_timestamp(dt)]
    /\ pc' = [pc EXCEPT ![p] = "generate"]
    /\ UNCHANGED <<app, whisper_model, loadStarted, loadCompleted, files, loop,
                   req,
                   model, tmp, transcription, gem, err, events, resp>>

\* line 187: user_tasks['tasks'] on a dict without that key
GenerateKeyError(p) ==
    /\ pc[p] = "generate"
    /\ "tasks" \notin req[p].keys
    /\ Raise(p, Raised("KeyError", "'tasks'"))
    /\ UNCHANGED <<app, whisper_model, loadStarted, loadCompleted, files, loop,
                   req,
                   model, tmp, transcription, gem, stamp, events>>

\* lines 161-192: generate_content raises
GenerateRaise(p) ==
    /\ pc[p] = "generate"
    /\ "tasks" \in req[p].keys
    /\ Raise(p, Raised("ClientError", "generate_content failed"))
    /\ UNCHANGED <<app, whisper_model, loadStarted, loadCompleted, files, loop,
                   req,
                   model, tmp, transcription, gem, stamp, events>>

\* lines 193-197: json.loads(str(response.text)), then the timestamp entry
AffirmationOf(r, ts) ==
    LET parsed == json_loads(StrOfText(r))
    IN IF ~parsed.ok
       THEN [ok |-> FALSE, e |-> Raised("JSONDecodeError", "Expecting value"),
             json |-> EmptyDict]
       ELSE IF parsed.val.type # "object"
       THEN [ok |-> FALSE,
             e |-> Raised("TypeError", "list indices must be integers"),
             json |-> EmptyDict]
       ELSE [ok |-> TRUE, e |-> NoErr,
             json |-> DictSet(parsed.val.members, "timestamp", ts)]

\* lines 161-197: generate_content returns
Generate(p) ==
    /\ pc[p] = "generate"
    /\ "tasks" \in req[p].keys
    /\ \E r \in GeminiResponses :
          /\ gem' = [gem EXCEPT ![p] = r]
          /\ LET a == AffirmationOf(r, stamp[p])
             IN IF a.ok
                THEN Return(p, [status |-> "success", json |-> a.json])
                ELSE Raise(p, a.e)
    /\ UNCHANGED <<app, whisper_model, loadStarted, loadCompleted, files, loop,
                   req,
                   model, tmp, transcription, stamp, events>>

\* ------------------------------------------------------------------------
\* root and health_check (backend.py lines 32-35 and 199-205)
\* ------------------------------------------------------------------------
Root(p) ==
    /\ pc[p] = "root"
    /\ loop = "free"
    /\ loop' = p
    /\ Return(p, [status |-> "running"])
    /\ UNCHANGED <<app, whisper_model, loadStarted, loadCompleted, files, req,
                   model, tmp, transcription, gem, stamp, events>>

HealthCheck(p) ==
    /\ pc[p] = "health"
    /\ loop = "free"
    /\ loop' = p
    /\ Return(p, [status |-> "healthy",
                  whisper_model_loaded |-> get_whisper_model_status])
    /\ UNCHANGED <<app, whisper_model, loadStarted, loadCompleted, files, req,
                   model, tmp, transcription, gem, stamp, events>>

\* ------------------------------------------------------------------------
\* Specification
\* ------------------------------------------------------------------------
Next ==
    \/ \E p \in Procs : LoadCheck(p)
    \/ \E p \in Procs : LoadBegin(p)
    \/ \E p \in Procs : LoadEndOk(p)
    \/ \E p \in Procs : LoadEndRaise(p)
    \/ \E p \in Workers : Receive(p)
    \/ \E p \in Workers : Close(p)
    \/ \E p \in Workers : SizeCheck(p)
    \/ \E p \in Workers : Read(p)
    \/ \E p \in Workers : TmpCreate(p)
    \/ \E p \in Workers : TmpWriteOk(p)
    \/ \E p \in Workers : TmpWriteRaise(p)
    \/ \E p \in Workers : LoadAudioOk(p)
    \/ \E p \in Workers : LoadAudioRaise(p)
    \/ \E p \in Workers : ModelTranscribeOk(p)
    \/ \E p \in Workers : ModelTranscribeRaise(p)
    \/ \E p \in Workers : Finally(p)
    \/ \E p \in Workers : TranscribeReturn(p)
    \/ \E p \in Workers : SpeechCheck(p)
    \/ \E p \in Workers : ExtractTasksOk(p)
    \/ \E p \in Workers : ExtractTasksRaise(p)
    \/ \E p \in Workers : AudioReturn(p)
    \/ \E p \in Workers : TextCheck(p)
    \/ \E p \in Workers : ParseTasks(p)
    \/ \E p \in Workers : Stamp(p)
    \/ \E p \in Workers : GenerateKeyError(p)
    \/ \E p \in Workers : GenerateRaise(p)
    \/ \E p \in Workers : Generate(p)
    \/ \E p \in Workers : Root(p)
    \/ \E p \in Workers : HealthCheck(p)

Spec == Init /\ [][Next]_vars

\* ------------------------------------------------------------------------
\* The transcription adapter called from threads.  The handlers of backend.py
\* are coroutines, but load_whisper_model and transcribe_audio_file are plain
\* functions; run from a pool of worker threads, the interpreter may switch
\* from one thread to another between any two steps.  loop is then the
\* thread that is running.
\* ------------------------------------------------------------------------
\* Uploads that reach transcribe_audio_file
ThreadRequests ==
    {r \in AudioRequests : r.ep = "transcribe" /\ r.len = 1}

ReceiveTranscribe(p) == ReceiveFrom(p, ThreadRequests)

\* A thread switch
Preempt(q) ==
    /\ app = "serving"
    /\ loop # q
    /\ loop' = q
    /\ UNCHANGED <<app, whisper_model, loadStarted, loadCompleted, files, pc,
                   req, model, tmp, transcription, gem, stamp, err, events,
                   resp>>

NextThreads ==
    \/ \E q \in Workers \cup {"free"} : Preempt(q)
    \/ \E p \in Procs : LoadCheck(p)
    \/ \E p \in Procs : LoadBegin(p)
    \/ \E p \in Procs : LoadEndOk(p)
    \/ \E p \in Procs : LoadEndRaise(p)
    \/ \E p \in Workers : ReceiveTranscribe(p)
    \/ \E p \in Workers : Close(p)
    \/ \E p \in Workers : Read(p)
    \/ \E p \in Workers : TmpCreate(p)
    \/ \E p \in Workers : TmpWriteOk(p)
    \/ \E p \in Workers : TmpWriteRaise(p)
    \/ \E p \in Workers : LoadAudioOk(p)
    \/ \E p \in Workers : LoadAudioRaise(p)
    \/ \E p \in Workers : ModelTranscribeOk(p)
    \/ \E p \in Workers : ModelTranscribeRaise(p)
    \/ \E p \in Workers : Finally(p)
    \/ \E p \in Workers : TranscribeReturn(p)

SpecThreads == Init /\ [][NextThreads]_vars

\* ------------------------------------------------------------------------
\* Properties
\* ------------------------------------------------------------------------
Done(p) == pc[p] = "done"

\* transcribe_audio_file has been entered and has not yet returned or raised
InTranscribe(p) ==
    pc[p] \in {"load_check", "load_model", "loading", "tmp_create",
               "tmp_write", "load_audio", "model_transcribe", "finally"}

\* C1: an audio upload of zero bytes is answered with status 400 and with no
\* other status, on both audio endpoints.
C1_EmptyUploadIs400 ==
    \A p \in Workers :
        (Done(p) /\ req[p].ep \in AudioEndpoints /\ req[p].len = 0)
            => resp[p].status = 400

\* C2: an audio upload longer than MAX_AUDIO_FILE_SIZE is answered with
\* status 413, whether or not its size field is populated, and its bytes
\* never reach transcribe_audio_file.
C2_OversizeIs413 ==
    \A p \in Workers :
        (req[p].ep \in AudioEndpoints /\ req[p].len > MAX_AUDIO_FILE_SIZE)
            => /\ "transcribe_audio_file" \notin events[p]
               /\ Done(p) => resp[p].status = 413

\* C3: a request to /extract-tasks-from-text whose text is empty or only
\* whitespace is answered with status 400, and extract_tasks is not called.
C3_BlankTextIs400 ==
    \A p \in Workers :
        (req[p].ep = "extract_text" /\ strip(req[p].text) = <<>>)
            => /\ "extract_tasks" \notin events[p]
               /\ Done(p) => resp[p].status = 400

\* C4: in /extract-tasks-from-audio, extract_tasks is called only after a
\* transcription with non-whitespace text was obtained, and a transcription
\* that is empty or only whitespace is answered with status 400.
C4_NoSpeechIs400 ==
    \A p \in Workers :
        req[p].ep = "extract_audio"
            => /\ "extract_tasks" \in events[p]
                    => /\ "transcribed" \in events[p]
                       /\ strip(transcription[p]) # <<>>
               /\ (Done(p) /\ "transcribed" \in events[p]
                           /\ strip(transcription[p]) = <<>>)
                    => resp[p].status = 400

\* The response text is empty, None or not parseable as JSON.
Unparseable(r) ==
    r.text_is_none \/ r.text = <<>> \/ ~json_loads(r.text).ok

\* C5: for a non-blank text on /extract-tasks-from-text, when extract_tasks
\* returned a response whose text is empty or is not JSON, the answer is
\* status 200 with tasks equal to {"tasks": []} and input_text equal to the
\* caller's text.
C5_UnparseableIsEmptyTaskList ==
    \A p \in Workers :
        (Done(p) /\ req[p].ep = "extract_text" /\ gem[p] # NoResponse
                 /\ Unparseable(gem[p]))
            => /\ resp[p].status = 200
               /\ resp[p].body.tasks = EmptyTaskList
               /\ resp[p].body.input_text = req[p].text

\* C5 happens: a text with surrounding blanks, a truncated JSON answer.
C5_Witness ==
    \E p \in Workers :
        /\ Done(p)
        /\ req[p].ep = "extract_text"
        /\ req[p].text = <<" ", "a">>
        /\ gem[p] = [text_is_none |-> FALSE, text |-> <<"{">>]
        /\ resp[p].status = 200

\* C6: when a call of transcribe_audio_file has returned or raised, the
\* scratch file it created no longer exists; with no request in progress no
\* scratch file exists.
C6_NoScratchFileRemains ==
    /\ \A p \in Workers :
          ("transcribe_audio_file" \in events[p] /\ ~InTranscribe(p))
              => tmp[p] \notin files
    /\ (\A p \in Workers : pc[p] = "idle") => files = {}

\* The detail of the response embeds the text of the error.
Embeds(detail, e) == IsSuffix(Str(e), detail)

C8_LoadedExactlyOnce ==
    /\ loadStarted <= 1
    /\ app = "serving"
          => /\ loadStarted = 1
             /\ loadCompleted = 1
             /\ whisper_model = 1
    /\ \A p \in Procs : model[p] # None => model[p] = 1

\* C8 happens: after the startup load, the calls of load_whisper_model of two
\* requests that are in transcribe_audio_file together have both returned.
C8_Witness ==
    /\ model[Lifespan] = 1
    /\ loadStarted = 1
    /\ \A p \in Workers : pc[p] = "tmp_create" /\ model[p] = 1

\* /health has answered that the model is loaded.
HealthSaysLoaded(p) ==
    /\ Done(p)
    /\ req[p].ep = "health"
    /\ resp[p].status = 200
    /\ resp[p].body.whisper_model_loaded

\* C9: the status /health reports is true only if a load has run to
\* completion, and once it is true it stays true.
C9_HealthReflectsCompletedLoad ==
    /\ [](get_whisper_model_status => loadCompleted >= 1)
    /\ [](\A p \in Workers : HealthSaysLoaded(p) => loadCompleted >= 1)
    /\ [][get_whisper_model_status => get_whisper_model_status']_vars

\* C9 happens: /health has reported the model loaded.
C9_Witness == \E p \in Workers : HealthSaysLoaded(p)

\* C10: a successful /generate-affirmation response carries a timestamp that
\* is a well-formed ISO-8601 UTC timestamp ending in "Z" with no other zone
\* designator, equal to the clock reading of that call whatever the caller
\* or the model supplied under 'timestamp'.
C10_TimestampWellFormed ==
    \A p \in Workers :
        (Done(p) /\ req[p].ep = "affirmation" /\ resp[p].status = 200)
            => /\ "timestamp" \in DOMAIN resp[p].body.json
               /\ resp[p].body.json["timestamp"] = stamp[p]
               /\ WellFormedUTC(resp[p].body.json["timestamp"])

====
